---- MODULE Spec2Model ----
(***************************************************************************)
(* Model of the order-submission core of the whale follower:               *)
(*   - the tier policy (settings: should_increment_price,                  *)
(*     get_max_resubmit_attempts, get_resubmit_max_buffer, get_tier_params) *)
(*   - the seeding of a ResubmitRequest by the order worker                *)
(*     (process_order; its logic is the one resubmit_tests.rs simulates)    *)
(*   - the resubmit engine: resubmit_worker, process_resubmit_chain and    *)
(*     submit_resubmit_order_sync of main.rs                               *)
(*   - the intake and dispatch: run_ws_loop, parse_event, handle_event,    *)
(*     OrderEngine::submit, the bounded work queue and the order worker.   *)
(*                                                                         *)
(* Fixed-point units (the f64 values of the program on an integer grid):   *)
(*   prices        in thousandths of a dollar   (0.99  -> 990)             *)
(*   sizes, fills  in thousandths of a share    (40.80 -> 40800)           *)
(*   whale_shares  in tenths of a share         (3999.9 -> 39999)          *)
(*   wire price/size in micro-units             (0.52  -> 520000)          *)
(***************************************************************************)
EXTENDS Integers, Sequences, FiniteSets, TLC

VARIABLES
    MIN_SHARE_COUNT,  \* settings constant whose value the sources do not fix
    resubmit_ch,      \* unbounded channel order worker -> resubmit worker
    pc,               \* position of the resubmit worker task
    req,              \* the ResubmitRequest the engine currently owns
    seed,             \* ghost: that request as it was received from the channel
    inflight,         \* the order handed to spawn_blocking, <<>> when none
    orders,           \* ghost: orders submitted for the current request
    answers,          \* ghost: the latest answer of the exchange to those orders,
                      \* and whether every FAK among them was rejected as a FAK
    outcome,          \* ghost: terminal outcome of the current request
    last_increment,   \* ghost: increment used by the latest price computation
    last_seed,        \* ghost: what the order worker did with its latest order
    enable_trading,   \* OrderEngine.enable_trading
    order_ch,         \* bounded channel event handlers -> order worker
    events,           \* the ParsedEvent each handle_event task was spawned with
    calls,            \* each event's handle_event task: position and result
    respond_to,       \* each work item's one-shot reply channel
    order_worker_st,  \* position of the order worker thread
    ledger            \* ghost: per event, what was consumed, sent and emitted

dispatch_vars == <<enable_trading, order_ch, events, calls, respond_to,
                   order_worker_st, ledger>>

vars == <<MIN_SHARE_COUNT, resubmit_ch, pc, req, seed, inflight, orders,
          outcome, last_increment, answers, last_seed, dispatch_vars>>

Min(a, b) == IF a <= b THEN a ELSE b
Max(a, b) == IF a >= b THEN a ELSE b

(***************************************************************************)
(* Program constants                                                       *)
(***************************************************************************)
PRICE_CAP == 990                   \* 0.99
PRICE_FLOOR == 10                  \* 0.01
ONE_SHARE == 1000                  \* 1.0 share
RESUBMIT_PRICE_INCREMENT == 10     \* 0.01, one chase tick
TIER_THRESHOLD == 40000            \* 4000 whale shares
MICRO_PER_MILLI == 1000            \* 1_000_000 / 1000
CENTI == 10                        \* one hundredth of a share, in thousandths

\* MIN_CASH_VALUE = 1.01 dollars, in (thousandths of a share) x (thousandths
\* of a dollar), so that  remaining < MIN_CASH_VALUE / limit  is
\* remaining * limit < MinCashValueScaled for limit > 0.
MinCashValueScaled == 1010 * 1000

(***************************************************************************)
(* Tier policy                                                             *)
(***************************************************************************)
should_increment_price(whale_shares, attempt) ==
    whale_shares >= TIER_THRESHOLD /\ attempt = 1

get_max_resubmit_attempts(whale_shares) ==
    IF whale_shares >= TIER_THRESHOLD THEN 5 ELSE 4

get_resubmit_max_buffer(whale_shares) ==
    IF whale_shares >= TIER_THRESHOLD THEN 10 ELSE 0

\* (tier buffer, action, size multiplier in hundredths); the multiplier
\* below 4000 whale shares is not fixed by the sources and is not relied on
get_tier_params(whale_shares, side_is_buy, token_id) ==
    IF whale_shares >= TIER_THRESHOLD
    THEN [buffer |-> 10, action |-> "FAK", size_multiplier |-> 125]
    ELSE [buffer |-> 0, action |-> "FAK", size_multiplier |-> 100]

\* what resubmit_tests.rs asserts of the policy functions
test_tier_boundary_8000 ==
    /\ should_increment_price(80000, 1)
    /\ ~should_increment_price(80000, 2)
    /\ ~should_increment_price(80000, 3)
    /\ get_resubmit_max_buffer(80000) = 10
    /\ get_max_resubmit_attempts(80000) = 5
    /\ ~should_increment_price(39999, 1)
    /\ ~should_increment_price(39999, 2)
    /\ get_resubmit_max_buffer(39999) = 0
    /\ get_max_resubmit_attempts(39999) = 4

test_max_attempts_by_tier ==
    /\ get_max_resubmit_attempts(80000) = 5
    /\ get_max_resubmit_attempts(100000) = 5
    /\ get_max_resubmit_attempts(40000) = 5
    /\ get_max_resubmit_attempts(39990) = 4
    /\ get_max_resubmit_attempts(25000) = 4
    /\ get_max_resubmit_attempts(20000) = 4
    /\ get_max_resubmit_attempts(10000) = 4
    /\ get_max_resubmit_attempts(1000) = 4

test_tier_small_never_chases ==
    /\ ~should_increment_price(10000, 1)
    /\ ~should_increment_price(10000, 2)
    /\ ~should_increment_price(10000, 3)

\* settings::get_gtd_expiry_secs: seconds a resting GTD lives, longer on
\* non-live markets.  Only "non-live is longer than live" is known of the two
\* values; the numbers stand for them.
GTD_EXPIRY_LIVE == 60
GTD_EXPIRY_NON_LIVE == 1800
get_gtd_expiry_secs(is_live) ==
    IF is_live THEN GTD_EXPIRY_LIVE ELSE GTD_EXPIRY_NON_LIVE

\* (x * 100.0).round() / 100.0 for x >= 0: nearest hundredth, halves away
\* from zero
round2(x) == ((x + (CENTI \div 2)) \div CENTI) * CENTI

(***************************************************************************)
(* The exchange's answers to one blocking submission                       *)
(*   kind      http_ok     HTTP success                                    *)
(*             http_fail   HTTP non-success                                *)
(*             submit_err  create_order / post_order_fast returned Err     *)
(*             task_err    the spawn_blocking task failed (JoinError)      *)
(*   body_fak  the body text contains "FAK"                                *)
(*   taking    the body's taking_amount: {} when absent or unparsable,     *)
(*             {t} when it parses to t                                     *)
(***************************************************************************)
Takings == {0, 600, 39500}

Responses ==
    { [kind |-> "http_ok", body_fak |-> FALSE, taking |-> t] :
          t \in {{}} \cup {{x} : x \in Takings} }
    \cup { [kind |-> "http_fail", body_fak |-> TRUE, taking |-> {}],
           [kind |-> "http_fail", body_fak |-> TRUE, taking |-> {600}],
           [kind |-> "http_fail", body_fak |-> FALSE, taking |-> {}] }
    \cup { [kind |-> "submit_err", body_fak |-> FALSE, taking |-> {}],
           [kind |-> "task_err", body_fak |-> FALSE, taking |-> {}] }

Times == {1000, 2000}              \* SystemTime::now() in epoch seconds

(***************************************************************************)
(* submit_resubmit_order_sync                                              *)
(***************************************************************************)
\* (x * 1_000_000.0).round() as i64, for x on the thousandths grid
round_micro(x) == x * MICRO_PER_MILLI

\* variant: the order sent with the sell side
order_args_sell_side(token_id, price, size, is_live, is_last_attempt, now) ==
    [ token_id   |-> token_id,
      price      |-> round_micro(price),
      size       |-> round_micro(size),
      side       |-> "SELL",
      expiration |-> IF is_last_attempt
                     THEN {now + get_gtd_expiry_secs(is_live)} ELSE {},
      order_type |-> IF is_last_attempt THEN "GTD" ELSE "FAK" ]

\* the OrderArgs built for one attempt; expiration is None ({}) or Some({t})
order_args(token_id, price, size, is_live, is_last_attempt, now) ==
    [ token_id   |-> token_id,
      price      |-> round_micro(price),
      size       |-> round_micro(size),
      side       |-> "BUY",
      expiration |-> IF is_last_attempt
                     THEN {now + get_gtd_expiry_secs(is_live)} ELSE {},
      order_type |-> IF is_last_attempt THEN "GTD" ELSE "FAK" ]

\* variant: taking_amount read whatever the HTTP status
filled_shares_any_status(resp, order_type) ==
    IF order_type = "FAK" /\ resp.taking # {}
    THEN CHOOSE t \in resp.taking : TRUE
    ELSE 0

\* filled_shares: taking_amount of a successful FAK, else 0
filled_shares(resp, order_type) ==
    IF resp.kind = "http_ok" /\ order_type = "FAK"
    THEN IF resp.taking = {} THEN 0 ELSE CHOOSE t \in resp.taking : TRUE
    ELSE 0

(***************************************************************************)
(* Resubmit engine: price of the next attempt and the ceiling check        *)
(***************************************************************************)
\* variant: the chase decided for the attempt after this one
worker_increment_next(r) ==
    IF should_increment_price(r.whale_shares, r.attempt + 1)
    THEN RESUBMIT_PRICE_INCREMENT ELSE 0

\* variant: a chase of two ticks
worker_increment_two_ticks(r) ==
    IF should_increment_price(r.whale_shares, r.attempt)
    THEN 2 * RESUBMIT_PRICE_INCREMENT ELSE 0

\* resubmit_worker: increment, then new_price
worker_increment(r) ==
    IF should_increment_price(r.whale_shares, r.attempt)
    THEN RESUBMIT_PRICE_INCREMENT ELSE 0

\* variant: the clamps to 0.99 and 0.01 forgotten
worker_new_price_unclamped(r) ==
    IF r.side_is_buy
    THEN r.failed_price + worker_increment(r)
    ELSE r.failed_price - worker_increment(r)

worker_new_price(r) ==
    IF r.side_is_buy
    THEN Min(r.failed_price + worker_increment(r), PRICE_CAP)
    ELSE Max(r.failed_price - worker_increment(r), PRICE_FLOOR)

worker_is_last_attempt(r) ==
    r.attempt >= get_max_resubmit_attempts(r.whale_shares)

\* variant: the new price compared with the absolute cap, not the request's ceiling
worker_abort_above_cap(r) ==
    ~worker_is_last_attempt(r) /\ r.side_is_buy
        /\ worker_new_price(r) > PRICE_CAP

\* variant: a price at the ceiling aborts too
worker_abort_at_ceiling(r) ==
    ~worker_is_last_attempt(r) /\ r.side_is_buy
        /\ worker_new_price(r) >= r.max_price

worker_abort(r) ==
    ~worker_is_last_attempt(r) /\ r.side_is_buy
        /\ worker_new_price(r) > r.max_price

\* variant: the chase repeated on every attempt
chain_increment_every_attempt(r) ==
    IF should_increment_price(r.whale_shares, 1)
    THEN RESUBMIT_PRICE_INCREMENT ELSE 0

\* process_resubmit_chain: the same computation, written a second time
chain_increment(r) ==
    IF should_increment_price(r.whale_shares, r.attempt)
    THEN RESUBMIT_PRICE_INCREMENT ELSE 0

chain_new_price(r) ==
    IF r.side_is_buy
    THEN Min(r.failed_price + chain_increment(r), PRICE_CAP)
    ELSE Max(r.failed_price - chain_increment(r), PRICE_FLOOR)

\* variant: the last attempt taken to be the one after max_attempts
chain_is_last_attempt_after(r) ==
    r.attempt > get_max_resubmit_attempts(r.whale_shares)

chain_is_last_attempt(r) ==
    r.attempt >= get_max_resubmit_attempts(r.whale_shares)

chain_abort(r) ==
    ~chain_is_last_attempt(r) /\ r.side_is_buy
        /\ chain_new_price(r) > r.max_price

\* ghost bookkeeping of the answers received for the current request
NoAnswers == [last |-> <<>>, fak_rejected |-> TRUE]

Answered(a, f, resp) ==
    [ last |-> <<resp>>,
      fak_rejected |-> a.fak_rejected
          /\ (f.args.order_type = "FAK"
                => resp.kind = "http_fail" /\ resp.body_fak) ]

\* the order in flight, with the locals the result handler reads
Flight(r, new_price, is_last, now) ==
    [ args |-> order_args(r.token_id, new_price, r.size, r.is_live, is_last, now),
      new_price |-> new_price,
      is_last_attempt |-> is_last,
      attempt |-> r.attempt ]

(***************************************************************************)
(* resubmit_worker: one iteration of  while let Some(req) = rx.recv()      *)
(***************************************************************************)
\* variant: the next request taken between two attempts of a running chain
worker_at_recv_mid_chain == pc \in {"recv", "chain_top"}

\* the worker task is at rx.recv().await: no iteration of the while loop,
\* and so no process_resubmit_chain it awaits, is running
\* variant: the worker leaves its loop after the first request it finished
worker_at_recv_once == pc = "recv" /\ outcome = "none"

worker_at_recv == pc = "recv"

\* rx.recv() up to the spawn_blocking of the submission (or the ABORT)
WorkerRecv ==
    /\ worker_at_recv
    /\ resubmit_ch # <<>>
    /\ LET r == Head(resubmit_ch)
           new_price == worker_new_price(r)
           is_last == worker_is_last_attempt(r)
       IN /\ resubmit_ch' = Tail(resubmit_ch)
          /\ req' = r
          /\ seed' = r
          /\ answers' = NoAnswers
          /\ last_increment' = worker_increment(r)
          /\ IF worker_abort(r)
             THEN /\ pc' = "recv"
                  /\ outcome' = "Aborted"
                  /\ inflight' = <<>>
                  /\ orders' = <<>>
             ELSE \E now \in Times :
                  /\ pc' = "worker_await"
                  /\ outcome' = "none"
                  /\ inflight' = <<Flight(r, new_price, is_last, now)>>
                  /\ orders' = <<Flight(r, new_price, is_last, now)>>
    /\ UNCHANGED <<MIN_SHARE_COUNT, last_seed, dispatch_vars>>

\* variant: the remainder not reduced by what this attempt filled
worker_next_partial_full_size(r, f, filled) ==
    [r EXCEPT !.failed_price = f.new_price,
              !.attempt = r.attempt + 1,
              !.cumulative_filled = r.cumulative_filled + filled]

\* variant: the attempt counter advanced by two after a partial fill
worker_next_partial_skip(r, f, filled) ==
    [r EXCEPT !.failed_price = f.new_price,
              !.size = r.size - filled,
              !.attempt = r.attempt + 2,
              !.cumulative_filled = r.cumulative_filled + filled]

\* the request the worker hands to process_resubmit_chain after a partial fill
worker_next_partial(r, f, filled) ==
    [r EXCEPT !.failed_price = f.new_price,
              !.size = r.size - filled,
              !.attempt = r.attempt + 1,
              !.cumulative_filled = r.cumulative_filled + filled]

\* variant: the price just tried not carried into the next request
worker_next_failed_keeps_price(r, f, filled) ==
    [r EXCEPT !.attempt = r.attempt + 1,
              !.cumulative_filled = r.cumulative_filled + filled]

\* ... and after a failed FAK
worker_next_failed(r, f, filled) ==
    [r EXCEPT !.failed_price = f.new_price,
              !.attempt = r.attempt + 1,
              !.cumulative_filled = r.cumulative_filled + filled]

\* does the worker retry after an HTTP failure (any body)
worker_retries(r, resp) == r.attempt < get_max_resubmit_attempts(r.whale_shares)

\* the match on the submission's result
WorkerResult(resp) ==
    /\ pc = "worker_await"
    /\ LET f == inflight[1]
           filled == filled_shares(resp, f.args.order_type)
           remaining == req.size - filled
       IN /\ inflight' = <<>>
          /\ answers' = Answered(answers, f, resp)
          /\ CASE resp.kind = "http_ok" /\ f.is_last_attempt ->
                    /\ outcome' = "GTDPosted" /\ pc' = "recv" /\ req' = req
               [] resp.kind = "http_ok" /\ ~f.is_last_attempt ->
                    IF remaining > ONE_SHARE /\ filled > 0
                    THEN /\ req' = worker_next_partial(req, f, filled)
                         /\ pc' = "chain_top" /\ outcome' = outcome
                    ELSE /\ outcome' = "Filled" /\ pc' = "recv" /\ req' = req
               [] resp.kind = "http_fail" ->
                    IF worker_retries(req, resp)
                    THEN /\ req' = worker_next_failed(req, f, filled)
                         /\ pc' = "chain_top" /\ outcome' = outcome
                    ELSE /\ outcome' = "Rejected" /\ pc' = "recv" /\ req' = req
               [] resp.kind = "submit_err" ->
                    /\ outcome' = "SubmitError" /\ pc' = "recv" /\ req' = req
               [] resp.kind = "task_err" ->
                    /\ outcome' = "TaskError" /\ pc' = "recv" /\ req' = req
    /\ UNCHANGED <<MIN_SHARE_COUNT, resubmit_ch, seed, orders, last_increment,
                   last_seed, dispatch_vars>>

(***************************************************************************)
(* process_resubmit_chain: one iteration of  while req.attempt <= max      *)
(***************************************************************************)
\* variant: the loop goes on while the blocking submission is still out
chain_at_top_not_awaited == pc \in {"chain_top", "chain_await"}

\* the loop body starts only once the previous spawn_blocking(..).await returned
chain_at_top == pc = "chain_top"

\* loop test up to the spawn_blocking of the submission (or the ABORT)
ChainStep ==
    /\ chain_at_top
    /\ IF req.attempt > get_max_resubmit_attempts(req.whale_shares)
       THEN /\ pc' = "recv"
            /\ outcome' = "Exhausted"
            /\ UNCHANGED <<inflight, orders, last_increment>>
       ELSE /\ last_increment' = chain_increment(req)
            /\ IF chain_abort(req)
               THEN /\ pc' = "recv"
                    /\ outcome' = "Aborted"
                    /\ UNCHANGED <<inflight, orders>>
               ELSE \E now \in Times :
                    LET f == Flight(req, chain_new_price(req),
                                    chain_is_last_attempt(req), now)
                    IN /\ pc' = "chain_await"
                       /\ outcome' = outcome
                       /\ inflight' = <<f>>
                       /\ orders' = Append(orders, f)
    /\ UNCHANGED <<MIN_SHARE_COUNT, resubmit_ch, req, seed, answers, last_seed,
                   dispatch_vars>>

\* variant: the fill of this attempt stored in place of the running total
chain_next_partial_overwrites_filled(r, f, filled) ==
    [r EXCEPT !.cumulative_filled = filled,
              !.size = r.size - filled,
              !.failed_price = f.new_price,
              !.attempt = r.attempt + 1]

chain_next_partial(r, f, filled) ==
    [r EXCEPT !.cumulative_filled = r.cumulative_filled + filled,
              !.size = r.size - filled,
              !.failed_price = f.new_price,
              !.attempt = r.attempt + 1]

\* variant: the attempt counter not advanced on a retry
chain_next_failed_same_attempt(r, f, filled) ==
    [r EXCEPT !.cumulative_filled = r.cumulative_filled + filled,
              !.failed_price = f.new_price]

\* variant: the retry takes the size still open as the original size
chain_next_failed_rebases_size(r, f, filled) ==
    [r EXCEPT !.cumulative_filled = r.cumulative_filled + filled,
              !.failed_price = f.new_price,
              !.attempt = r.attempt + 1,
              !.original_size = r.size]

chain_next_failed(r, f, filled) ==
    [r EXCEPT !.cumulative_filled = r.cumulative_filled + filled,
              !.failed_price = f.new_price,
              !.attempt = r.attempt + 1]

\* variant: the retry arm taken for the bodies without "FAK"
chain_retries_without_fak(r, resp) ==
    ~resp.body_fak /\ r.attempt < get_max_resubmit_attempts(r.whale_shares)

\* variant: the retry arm taken whatever the attempt
chain_retries_any_attempt(r, resp) == resp.body_fak

\* the guard of the retry arm: body.contains("FAK") && attempt < max_attempts
chain_retries(r, resp) ==
    resp.body_fak /\ r.attempt < get_max_resubmit_attempts(r.whale_shares)

\* variant: the retry arm awaits a result again instead of looping
chain_match_retry_awaits(r, f, resp) ==
    LET filled == filled_shares(resp, f.args.order_type)
        remaining == r.size - filled
        ends(o) == [req |-> r, pc |-> "recv", outcome |-> o]
    IN CASE resp.kind = "http_ok" /\ f.is_last_attempt -> ends("GTDPosted")
         [] resp.kind = "http_ok" /\ ~f.is_last_attempt ->
                IF remaining > ONE_SHARE /\ filled > 0
                THEN [req |-> chain_next_partial(r, f, filled),
                      pc |-> "chain_top", outcome |-> ""]
                ELSE ends("Filled")
         [] resp.kind = "http_fail" ->
                IF chain_retries(r, resp)
                THEN [req |-> chain_next_failed(r, f, filled),
                      pc |-> "chain_await", outcome |-> ""]
                ELSE ends("Rejected")
         [] resp.kind = "submit_err" -> ends("SubmitError")
         [] resp.kind = "task_err" -> ends("TaskError")

\* variant: a submission that could not be made is retried like a rejection
chain_match_retries_errors(r, f, resp) ==
    LET filled == filled_shares(resp, f.args.order_type)
        remaining == r.size - filled
        ends(o) == [req |-> r, pc |-> "recv", outcome |-> o]
    IN CASE resp.kind = "http_ok" /\ f.is_last_attempt -> ends("GTDPosted")
         [] resp.kind = "http_ok" /\ ~f.is_last_attempt ->
                IF remaining > ONE_SHARE /\ filled > 0
                THEN [req |-> chain_next_partial(r, f, filled),
                      pc |-> "chain_top", outcome |-> ""]
                ELSE ends("Filled")
         [] resp.kind = "http_fail" ->
                IF chain_retries(r, resp)
                THEN [req |-> chain_next_failed(r, f, filled),
                      pc |-> "chain_top", outcome |-> ""]
                ELSE ends("Rejected")
         [] resp.kind \in {"submit_err", "task_err"} ->
                IF r.attempt < get_max_resubmit_attempts(r.whale_shares)
                THEN [req |-> chain_next_failed(r, f, filled),
                      pc |-> "chain_top", outcome |-> ""]
                ELSE ends("SubmitError")

\* the match on the submission's result: the request, position and outcome
\* it leaves ("" when the loop continues and no outcome is logged)
chain_match(r, f, resp) ==
    LET filled == filled_shares(resp, f.args.order_type)
        remaining == r.size - filled
        ends(o) == [req |-> r, pc |-> "recv", outcome |-> o]
    IN CASE resp.kind = "http_ok" /\ f.is_last_attempt -> ends("GTDPosted")
         [] resp.kind = "http_ok" /\ ~f.is_last_attempt ->
                IF remaining > ONE_SHARE /\ filled > 0
                THEN [req |-> chain_next_partial(r, f, filled),
                      pc |-> "chain_top", outcome |-> ""]
                ELSE ends("Filled")
         [] resp.kind = "http_fail" ->
                IF chain_retries(r, resp)
                THEN [req |-> chain_next_failed(r, f, filled),
                      pc |-> "chain_top", outcome |-> ""]
                ELSE ends("Rejected")
         [] resp.kind = "submit_err" -> ends("SubmitError")
         [] resp.kind = "task_err" -> ends("TaskError")

ChainResult(resp) ==
    /\ pc = "chain_await"
    /\ inflight # <<>>
    /\ LET m == chain_match(req, inflight[1], resp)
       IN /\ inflight' = <<>>
          /\ answers' = Answered(answers, inflight[1], resp)
          /\ req' = m.req
          /\ pc' = m.pc
          /\ outcome' = IF m.outcome = "" THEN outcome ELSE m.outcome
    /\ UNCHANGED <<MIN_SHARE_COUNT, resubmit_ch, seed, orders, last_increment,
                   last_seed, dispatch_vars>>

(***************************************************************************)
(* Seeding of a ResubmitRequest by the order worker                        *)
(***************************************************************************)
\* variant: the smaller of the two minimums taken as the threshold
below_min_threshold_min(remaining, limit_price) ==
    /\ remaining < MIN_SHARE_COUNT
    /\ IF limit_price > 0 THEN remaining * limit_price < MinCashValueScaled
       ELSE limit_price = 0

\* remaining < MIN_SHARE_COUNT.max(MIN_CASH_VALUE / limit_price); the f64
\* quotient is +inf for a zero limit and negative for a negative one
below_min_threshold(remaining, limit_price) ==
    \/ remaining < MIN_SHARE_COUNT
    \/ IF limit_price > 0 THEN remaining * limit_price < MinCashValueScaled
       ELSE limit_price = 0

\* variant: the whole requested size resubmitted after a partial fill
should_resubmit_underfill_full_size(filled_shares_, requested_shares, limit_price, whale_shares, whale_price, token_id) ==
    IF filled_shares_ >= requested_shares \/ filled_shares_ <= 0 THEN {}
    ELSE IF below_min_threshold(requested_shares - filled_shares_, limit_price)
    THEN {}
    ELSE {[ token_id |-> token_id,
            whale_price |-> whale_price,
            failed_price |-> limit_price,
            size |-> round2(requested_shares),
            whale_shares |-> whale_shares,
            side_is_buy |-> TRUE,
            attempt |-> 1,
            max_price |-> Min(limit_price + get_resubmit_max_buffer(whale_shares), PRICE_CAP),
            cumulative_filled |-> filled_shares_,
            original_size |-> requested_shares,
            is_live |-> FALSE ]}

\* variant: a zero fill let through as an underfill
should_resubmit_underfill_zero_fill(filled_shares_, requested_shares, limit_price, whale_shares, whale_price, token_id) ==
    IF filled_shares_ >= requested_shares THEN {}
    ELSE IF below_min_threshold(requested_shares - filled_shares_, limit_price)
    THEN {}
    ELSE {[ token_id |-> token_id,
            whale_price |-> whale_price,
            failed_price |-> limit_price,
            size |-> round2(requested_shares - filled_shares_),
            whale_shares |-> whale_shares,
            side_is_buy |-> TRUE,
            attempt |-> 1,
            max_price |-> Min(limit_price + get_resubmit_max_buffer(whale_shares), PRICE_CAP),
            cumulative_filled |-> filled_shares_,
            original_size |-> requested_shares,
            is_live |-> FALSE ]}

\* should_resubmit_underfill: None ({}) or Some({request})
should_resubmit_underfill(filled_shares_, requested_shares, limit_price, whale_shares, whale_price, token_id) ==
    IF filled_shares_ >= requested_shares \/ filled_shares_ <= 0 THEN {}
    ELSE IF below_min_threshold(requested_shares - filled_shares_, limit_price)
    THEN {}
    ELSE {[ token_id |-> token_id,
            whale_price |-> whale_price,
            failed_price |-> limit_price,
            size |-> round2(requested_shares - filled_shares_),
            whale_shares |-> whale_shares,
            side_is_buy |-> TRUE,
            attempt |-> 1,
            max_price |-> Min(limit_price + get_resubmit_max_buffer(whale_shares),
                              PRICE_CAP),
            cumulative_filled |-> filled_shares_,
            original_size |-> requested_shares,
            is_live |-> FALSE ]}

\* variant: the ceiling left uncapped above 0.99
should_resubmit_fak_failure_uncapped(my_shares, limit_price, whale_shares, whale_price, token_id) ==
    [ token_id |-> token_id,
            whale_price |-> whale_price,
            failed_price |-> limit_price,
            size |-> round2(my_shares),
            whale_shares |-> whale_shares,
            side_is_buy |-> TRUE,
            attempt |-> 1,
            max_price |-> limit_price + get_resubmit_max_buffer(whale_shares),
            cumulative_filled |-> 0,
            original_size |-> round2(my_shares),
            is_live |-> FALSE ]

\* variant: the ceiling set at the limit, the resubmit buffer left out
should_resubmit_fak_failure_no_buffer(my_shares, limit_price, whale_shares, whale_price, token_id) ==
    [ token_id |-> token_id,
            whale_price |-> whale_price,
            failed_price |-> limit_price,
            size |-> round2(my_shares),
            whale_shares |-> whale_shares,
            side_is_buy |-> TRUE,
            attempt |-> 1,
            max_price |-> Min(limit_price, PRICE_CAP),
            cumulative_filled |-> 0,
            original_size |-> round2(my_shares),
            is_live |-> FALSE ]

\* variant: the size resubmitted as computed, not rounded to two decimals
should_resubmit_fak_failure_unrounded(my_shares, limit_price, whale_shares, whale_price, token_id) ==
    [ token_id |-> token_id,
            whale_price |-> whale_price,
            failed_price |-> limit_price,
            size |-> my_shares,
            whale_shares |-> whale_shares,
            side_is_buy |-> TRUE,
            attempt |-> 1,
            max_price |-> Min(limit_price + get_resubmit_max_buffer(whale_shares), PRICE_CAP),
            cumulative_filled |-> 0,
            original_size |-> my_shares,
            is_live |-> FALSE ]

\* should_resubmit_fak_failure
should_resubmit_fak_failure(my_shares, limit_price, whale_shares, whale_price, token_id) ==
    [ token_id |-> token_id,
      whale_price |-> whale_price,
      failed_price |-> limit_price,
      size |-> round2(my_shares),
      whale_shares |-> whale_shares,
      side_is_buy |-> TRUE,
      attempt |-> 1,
      max_price |-> Min(limit_price + get_resubmit_max_buffer(whale_shares),
                        PRICE_CAP),
      cumulative_filled |-> 0,
      original_size |-> round2(my_shares),
      is_live |-> FALSE ]

\* the initial limit price of an order
initial_limit_price(whale_shares, whale_price, class_buffer, token_id) ==
    Min(whale_price + get_tier_params(whale_shares, TRUE, token_id).buffer
            + class_buffer, PRICE_CAP)

\* what resubmit_tests.rs asserts of the caps: a 0.98 limit of a 10000-share
\* whale has its ceiling capped at 0.99, and an ATP token (class buffer 0.01)
\* at whale price 0.96 gets limit 0.98 and ceiling 0.99
test_price_ceiling_hard_cap_099 ==
    Min(980 + get_resubmit_max_buffer(100000), PRICE_CAP) = 990

test_atp_near_price_ceiling ==
    /\ initial_limit_price(100000, 960, 10, "fake") = 980
    /\ should_resubmit_fak_failure(250000, 980, 100000, 960, "atp_token").max_price
           = 990

\* process_order for a buy the risk guard allows and sizing accepts: the
\* initial FAK of my_shares (n) at the limit price is submitted and resp is
\* the exchange's answer.  A rejection, or a success that took nothing, is a
\* FAK failure; a success that took something may be an underfill.
ProcessOrderOn(w, wp, cb, n, live, resp) ==
    LET limit == initial_limit_price(w, wp, cb, "tok")
        filled == filled_shares(resp, get_tier_params(w, TRUE, "tok").action)
        fak_failure == resp.kind = "http_fail" \/ filled = 0
        emitted ==
            IF fak_failure
            THEN {should_resubmit_fak_failure(n, limit, w, wp, "tok")}
            ELSE should_resubmit_underfill(filled, n, limit, w, wp, "tok")
        sent == {[r EXCEPT !.is_live = live] : r \in emitted}
    IN /\ ~below_min_threshold(n, limit)
       /\ resubmit_ch' = IF sent = {} THEN resubmit_ch
                         ELSE Append(resubmit_ch, CHOOSE r \in sent : TRUE)
       /\ last_seed' = [ path |-> IF fak_failure THEN "fak_failure"
                                  ELSE "underfill",
                         side |-> "BUY",
                         guard |-> "allow",
                         initial_orders |-> 1,
                         my_shares |-> n,
                         limit_price |-> limit,
                         whale_shares |-> w,
                         whale_price |-> wp,
                         class_buffer |-> cb,
                         is_live |-> live,
                         filled |-> filled,
                         emitted |-> sent,
                         status |-> IF sent = {} THEN "SUCCESS"
                                    ELSE "RESUBMIT_QUEUED" ]
       /\ UNCHANGED <<MIN_SHARE_COUNT, pc, req, seed, inflight, orders,
                      outcome, last_increment, answers>>

\* what the order worker has done before its first order
NoSeed ==
    [ path |-> "none", side |-> "", guard |-> "", initial_orders |-> 0,
      my_shares |-> 0, limit_price |-> 0, whale_shares |-> 0,
      whale_price |-> 0, class_buffer |-> 0, is_live |-> FALSE, filled |-> 0,
      emitted |-> {}, status |-> "" ]

\* variant: a denied order handed to the resubmitter like a failed one
OrderWorkerOn_denied_resubmitted(side, decision, placed, w, wp, cb, n, live, resp) ==
    IF side = "SELL"
    THEN /\ resubmit_ch' = resubmit_ch
         /\ last_seed' = [NoSeed EXCEPT !.path = "sell", !.side = "SELL",
                                        !.guard = decision,
                                        !.status = "SELL_NOT_RESUBMITTED"]
         /\ UNCHANGED <<MIN_SHARE_COUNT, pc, req, seed, inflight, orders,
                        outcome, last_increment, answers>>
    ELSE IF decision = "deny"
    THEN LET limit == initial_limit_price(w, wp, cb, "tok")
             r == should_resubmit_fak_failure(n, limit, w, wp, "tok")
         IN /\ resubmit_ch' = Append(resubmit_ch, r)
            /\ last_seed' = [NoSeed EXCEPT !.path = "denied", !.side = "BUY",
                                           !.guard = "deny",
                                           !.emitted = {r},
                                           !.status = "RISK_DENIED"]
            /\ UNCHANGED <<MIN_SHARE_COUNT, pc, req, seed, inflight, orders,
                           outcome, last_increment, answers>>
    ELSE ProcessOrderOn(w, wp, cb, n, live, resp)

\* process_order on any whale event.  A sell-side event is not copied into
\* a resubmit: whether an initial order goes out for it is left open, a
\* ResubmitRequest never does.  A buy the risk guard denies is refused before
\* anything is submitted.  A buy it allows (as is, or with the size adjusted
\* to n) goes on as above.
OrderWorkerOn(side, decision, placed, w, wp, cb, n, live, resp) ==
    IF side = "SELL"
    THEN /\ resubmit_ch' = resubmit_ch
         /\ last_seed' = [NoSeed EXCEPT !.path = "sell", !.side = "SELL",
                                        !.guard = decision,
                                        !.initial_orders =
                                            IF placed /\ decision = "allow"
                                            THEN 1 ELSE 0,
                                        !.whale_shares = w, !.whale_price = wp,
                                        !.status = "SELL_NOT_RESUBMITTED"]
         /\ UNCHANGED <<MIN_SHARE_COUNT, pc, req, seed, inflight, orders,
                        outcome, last_increment, answers>>
    ELSE IF decision = "deny"
    THEN /\ resubmit_ch' = resubmit_ch
         /\ last_seed' = [NoSeed EXCEPT !.path = "denied", !.side = "BUY",
                                        !.guard = "deny",
                                        !.whale_shares = w, !.whale_price = wp,
                                        !.class_buffer = cb, !.my_shares = n,
                                        !.limit_price =
                                            initial_limit_price(w, wp, cb, "tok"),
                                        !.status = "RISK_DENIED"]
         /\ UNCHANGED <<MIN_SHARE_COUNT, pc, req, seed, inflight, orders,
                        outcome, last_increment, answers>>
    ELSE ProcessOrderOn(w, wp, cb, n, live, resp)

\* the exchange's answers to an initial FAK
InitialResponses(takings) ==
    { [kind |-> "http_ok", body_fak |-> FALSE, taking |-> {t}] : t \in takings }
    \cup { [kind |-> "http_fail", body_fak |-> TRUE, taking |-> {}] }

EventSides == {"BUY", "SELL"}          \* the whale's side of the fill
GuardDecisions == {"allow", "deny"}    \* the risk guard's decision

\* the order worker inside the pipeline: a few whale events, any number of
\* them, the channel capped to keep the state space finite
MaxQueue == 1
MinShareCounts == {0, 2000}
PipeWhaleShares == {39999, 40000}
PipeTakings == {600}

ProcessOrder ==
    /\ Len(resubmit_ch) < MaxQueue
    /\ \E side \in EventSides, decision \in GuardDecisions,
          w \in PipeWhaleShares, resp \in InitialResponses(PipeTakings) :
           OrderWorkerOn(side, decision, TRUE, w, 500, 0, 40006, FALSE, resp)
    /\ UNCHANGED dispatch_vars

\* the order worker alone, on its first order: whale events and answers
\* around every threshold of the seeding
EvWhaleShares == {39999, 40000}
EvWhalePrices == {5, 500, 980}
EvClassBuffers == {0, 10}
EvMyShares == {2504, 40006, 250000}
EvTakings == {0, 600, 39500, 40006, 41000}

SeedOrder ==
    /\ last_seed.path = "none"
    /\ \E w \in EvWhaleShares, wp \in EvWhalePrices, cb \in EvClassBuffers,
          n \in EvMyShares, live \in BOOLEAN,
          resp \in InitialResponses(EvTakings),
          side \in EventSides, decision \in GuardDecisions, placed \in BOOLEAN :
           OrderWorkerOn(side, decision, placed, w, wp, cb, n, live, resp)
    /\ UNCHANGED dispatch_vars

(***************************************************************************)
(* Dispatch: OrderEngine::submit, the bounded work queue, the order worker  *)
(***************************************************************************)
ORDER_QUEUE_CAPACITY == 1024       \* mpsc::channel(1024)
MaxEvents == 2                     \* messages read from the WebSocket
Events == 1..MaxEvents             \* numbered in the order they are read

\* the amounts a log message carries: shares and dollars, in whole units
WsShareAmounts == {0, 4000}
WsUsdAmounts == {2000, 4000}

NoEvent == [shares |-> 0, usd_value |-> 0, price_per_share |-> 0]

\* parse_event from the decoded amounts on: None ({}) for shares <= 0, else
\* the event with price = usd / shares (shares in tenths, price in
\* thousandths of a dollar)
parse_event(shares_amt, usd_amt) ==
    IF shares_amt <= 0 THEN {}
    ELSE {[ shares |-> shares_amt * 10,
            usd_value |-> usd_amt,
            price_per_share |-> (usd_amt * 1000) \div shares_amt ]}

\* the work items of earlier events still queued when the first followed
\* event arrives; they differ in nothing the model reads and are kept as a
\* count at the head of the queue
Backlogs == {0, ORDER_QUEUE_CAPACITY - 1}

QueueLen(ch) == ch.backlog + Len(ch.items)

NoCall == [pc |-> "idle", status |-> ""]
NoReply == [state |-> "none", msg |-> ""]
NoEntry == [enqueued |-> 0, consumed |-> 0, sends |-> 0, returns |-> 0,
            emitted |-> 0, late_emitted |-> FALSE,
            full_at_submit |-> FALSE, awaited |-> "",
            enq_rank |-> 0, cons_rank |-> 0, placed |-> 0]

\* ghost: the position an event takes among those enqueued, or consumed
NextRank(field) == 1 + Cardinality({x \in Events : ledger[x][field] > 0})

DispatchIdle ==
    /\ enable_trading = TRUE
    /\ order_ch = [backlog |-> 0, items |-> <<>>]
    /\ events = [e \in Events |-> NoEvent]
    /\ calls = [e \in Events |-> NoCall]
    /\ respond_to = [e \in Events |-> NoReply]
    /\ order_worker_st = [pc |-> "recv", item |-> 0]
    /\ ledger = [e \in Events |-> NoEntry]

\* variant: one item more than the capacity let in
try_send_full_off_by_one(ch) == QueueLen(ch) > ORDER_QUEUE_CAPACITY

\* tx.try_send fails with Full when the channel holds its capacity
try_send_full(ch) == QueueLen(ch) >= ORDER_QUEUE_CAPACITY

\* variant: the two failure arms exchanged
submit_result_arms_swapped(awaited, msg) ==
    CASE awaited = "reply" -> msg
      [] awaited = "dropped" -> "WORKER_TIMEOUT"
      [] awaited = "elapsed" -> "WORKER_DROPPED"

\* the match on timeout(ORDER_REPLY_TIMEOUT, resp_rx): Ok(Ok(msg)),
\* Ok(Err(_)), Err(_)
submit_result(awaited, msg) ==
    CASE awaited = "reply" -> msg
      [] awaited = "dropped" -> "WORKER_DROPPED"
      [] awaited = "elapsed" -> "WORKER_TIMEOUT"

\* the call returns status; the ghost keeps how its await ended and whether
\* the queue was full when it was made
Returned(e, status, awaited) ==
    /\ calls' = [calls EXCEPT ![e] = [pc |-> "done", status |-> status]]
    /\ ledger' = [ledger EXCEPT ![e].returns = @ + 1,
                                ![e].awaited = awaited,
                                ![e].full_at_submit =
                                    /\ calls[e].pc = "spawned"
                                    /\ QueueLen(order_ch) >= 1024]

EngineUnchanged ==
    UNCHANGED <<MIN_SHARE_COUNT, resubmit_ch, pc, req, seed, inflight, orders,
                outcome, last_increment, answers, last_seed>>

\* run_ws_loop: the next message is read and parsed; for a ParsedEvent a
\* handle_event task is spawned, for None nothing is
WsRead(e) ==
    /\ calls[e].pc = "idle"
    /\ e > 1 => calls[e - 1].pc # "idle"
    /\ \E shares_amt \in WsShareAmounts, usd_amt \in WsUsdAmounts :
          LET evt == parse_event(shares_amt, usd_amt)
          IN IF evt = {}
             THEN /\ calls' = [calls EXCEPT ![e].pc = "unparsed"]
                  /\ events' = events
             ELSE /\ calls' = [calls EXCEPT ![e].pc = "spawned"]
                  /\ events' = [events EXCEPT ![e] = CHOOSE x \in evt : TRUE]
    /\ UNCHANGED <<enable_trading, order_ch, respond_to, order_worker_st,
                   ledger>>
    /\ EngineUnchanged

\* handle_event: the live-status lookup, then OrderEngine::submit up to its
\* await (or its early return); the spawned tasks run in any order
Submit(e) ==
    /\ calls[e].pc = "spawned"
    /\ IF ~enable_trading
       THEN /\ Returned(e, "SKIPPED_DISABLED", "")
            /\ UNCHANGED <<order_ch, respond_to>>
       ELSE IF order_worker_st.pc = "dead" \/ try_send_full(order_ch)
       THEN /\ Returned(e, "QUEUE_ERR", "")
            /\ UNCHANGED <<order_ch, respond_to>>
       ELSE /\ order_ch' = [order_ch EXCEPT !.items = Append(@, e)]
            /\ respond_to' = [respond_to EXCEPT ![e].state = "held"]
            /\ calls' = [calls EXCEPT ![e].pc = "await"]
            /\ ledger' = [ledger EXCEPT ![e].enqueued = @ + 1,
                                        ![e].enq_rank = NextRank("enq_rank")]
    /\ UNCHANGED <<enable_trading, events, order_worker_st>>
    /\ EngineUnchanged

\* the await completes with the reply, or with the sender dropped
SubmitReply(e) ==
    /\ calls[e].pc = "await"
    /\ respond_to[e].state \in {"sent", "dropped"}
    /\ LET awaited == IF respond_to[e].state = "sent" THEN "reply"
                      ELSE "dropped"
       IN Returned(e, submit_result(awaited, respond_to[e].msg), awaited)
    /\ UNCHANGED <<enable_trading, order_ch, events, respond_to,
                   order_worker_st>>
    /\ EngineUnchanged

\* ORDER_REPLY_TIMEOUT elapses with the reply still pending
SubmitTimeout(e) ==
    /\ calls[e].pc = "await"
    /\ respond_to[e].state = "held"
    /\ Returned(e, submit_result("elapsed", respond_to[e].msg), "elapsed")
    /\ UNCHANGED <<enable_trading, order_ch, events, respond_to,
                   order_worker_st>>
    /\ EngineUnchanged

\* variant: the work item read but left at the head of the queue
worker_take_peek(ch) ==
    IF ch.backlog > 0 THEN [ch EXCEPT !.backlog = @ - 1] ELSE ch

\* the channel after rx.blocking_recv() has taken its head
worker_take(ch) ==
    IF ch.backlog > 0 THEN [ch EXCEPT !.backlog = @ - 1]
    ELSE [ch EXCEPT !.items = Tail(@)]

\* order_worker: rx.blocking_recv() takes the next work item
OrderWorkerRecv ==
    /\ order_worker_st.pc = "recv"
    /\ QueueLen(order_ch) > 0
    /\ LET item == IF order_ch.backlog > 0 THEN 0 ELSE Head(order_ch.items)
       IN /\ order_ch' = worker_take(order_ch)
          /\ order_worker_st' = [pc |-> "processing", item |-> item]
          /\ ledger' = IF item = 0 THEN ledger
                       ELSE [ledger EXCEPT ![item].consumed = @ + 1,
                                           ![item].cons_rank =
                                               NextRank("cons_rank")]
    /\ UNCHANGED <<enable_trading, events, calls, respond_to>>
    /\ EngineUnchanged

\* order_worker: process_order on the item taken, then respond_to.send(status)
\* (a send to a call that has returned fails and is ignored)
OrderWorkerProcess ==
    /\ order_worker_st.pc = "processing"
    /\ order_worker_st' = [pc |-> "recv", item |-> 0]
    /\ LET e == order_worker_st.item
       IN IF e = 0
          THEN /\ EngineUnchanged
               /\ UNCHANGED <<respond_to, ledger>>
          ELSE /\ \E side \in EventSides, decision \in GuardDecisions,
                     resp \in InitialResponses({40006}) :
                      OrderWorkerOn(side, decision, TRUE, events[e].shares,
                                    events[e].price_per_share, 0, 40006,
                                    FALSE, resp)
               /\ respond_to' = [respond_to EXCEPT
                                    ![e] = [state |-> "sent",
                                            msg |-> last_seed'.status]]
               /\ ledger' = [ledger EXCEPT
                    ![e].sends = @ + 1,
                    ![e].placed = @ + last_seed'.initial_orders,
                    ![e].emitted = @ + Cardinality(last_seed'.emitted),
                    ![e].late_emitted =
                        \/ @
                        \/ /\ last_seed'.emitted # {}
                           /\ calls[e].status \in {"WORKER_TIMEOUT",
                                                   "WORKER_DROPPED"}]
    /\ UNCHANGED <<enable_trading, order_ch, events, calls>>

\* the order worker thread ends inside process_order (a panic): the item in
\* hand and the receiver are dropped, and with the receiver every queued item
OrderWorkerPanic ==
    /\ order_worker_st.pc = "processing"
    /\ order_worker_st' = [pc |-> "dead", item |-> 0]
    /\ order_ch' = [backlog |-> 0, items |-> <<>>]
    /\ respond_to' = [e \in Events |->
                        IF respond_to[e].state = "held"
                        THEN [state |-> "dropped", msg |-> ""]
                        ELSE respond_to[e]]
    /\ UNCHANGED <<enable_trading, events, calls, ledger>>
    /\ EngineUnchanged

\* no request in hand
NoRequest ==
    [ token_id |-> "", whale_price |-> 0, failed_price |-> 0, size |-> 0,
      whale_shares |-> 0, side_is_buy |-> TRUE, attempt |-> 0, max_price |-> 0,
      cumulative_filled |-> 0, original_size |-> 0, is_live |-> FALSE ]

InitDispatch ==
    /\ MIN_SHARE_COUNT = 0
    /\ resubmit_ch = <<>>
    /\ pc = "recv"
    /\ req = NoRequest
    /\ seed = NoRequest
    /\ inflight = <<>>
    /\ orders = <<>>
    /\ outcome = "none"
    /\ last_increment = 0
    /\ answers = NoAnswers
    /\ last_seed = NoSeed
    /\ enable_trading \in BOOLEAN
    /\ order_ch \in {[backlog |-> b, items |-> <<>>] : b \in Backlogs}
    /\ events = [e \in Events |-> CHOOSE x \in parse_event(4000, 2000) : TRUE]
    /\ calls = [e \in Events |-> [NoCall EXCEPT !.pc = "spawned"]]
    /\ respond_to = [e \in Events |-> NoReply]
    /\ order_worker_st = [pc |-> "recv", item |-> 0]
    /\ ledger = [e \in Events |-> NoEntry]

NextDispatch ==
    \/ \E e \in Events : Submit(e)
    \/ \E e \in Events : SubmitReply(e)
    \/ \E e \in Events : SubmitTimeout(e)
    \/ OrderWorkerRecv
    \/ OrderWorkerProcess
    \/ OrderWorkerPanic

\* the event handlers and the order worker, without the resubmit worker,
\* from the moment the handle_event tasks of MaxEvents fills (4000 shares at
\* 0.50) have been spawned
DispatchSpec == InitDispatch /\ [][NextDispatch]_vars

\* the same from the WebSocket on, with trading enabled and an empty queue
InitIntake ==
    /\ MIN_SHARE_COUNT = 0
    /\ resubmit_ch = <<>>
    /\ pc = "recv"
    /\ req = NoRequest
    /\ seed = NoRequest
    /\ inflight = <<>>
    /\ orders = <<>>
    /\ outcome = "none"
    /\ last_increment = 0
    /\ answers = NoAnswers
    /\ last_seed = NoSeed
    /\ DispatchIdle

NextIntake ==
    \/ \E e \in Events : WsRead(e)
    \/ NextDispatch

IntakeSpec == InitIntake /\ [][NextIntake]_vars

(***************************************************************************)
(* Specifications                                                          *)
(***************************************************************************)
\* the whole pipeline: the order worker seeds, the resubmit worker handles
Init ==
    /\ MIN_SHARE_COUNT \in MinShareCounts
    /\ resubmit_ch = <<>>
    /\ pc = "recv"
    /\ req = NoRequest
    /\ seed = NoRequest
    /\ inflight = <<>>
    /\ orders = <<>>
    /\ outcome = "none"
    /\ last_increment = 0
    /\ answers = NoAnswers
    /\ last_seed = NoSeed
    /\ DispatchIdle

Next ==
    \/ ProcessOrder
    \/ WorkerRecv
    \/ \E resp \in Responses : WorkerResult(resp)
    \/ ChainStep
    \/ \E resp \in Responses : ChainResult(resp)

Spec == Init /\ [][Next]_vars

\* the resubmit engine alone, handed any ResubmitRequest of the data model
MaxSeedAttempt == 2
EngWhaleShares == {39999, 40000}
EngFailedPrices == {5, 15, 520, 530, 985, 995}
EngMaxPrices == {5, 520, 530, 990}
EngSizes == {2000, 40000}
EngCumulative == {0, 600}

EngineRequests ==
    { [ token_id |-> "tok", whale_price |-> 500, failed_price |-> fp,
        size |-> s, whale_shares |-> w, side_is_buy |-> b, attempt |-> a,
        max_price |-> mp, cumulative_filled |-> c, original_size |-> s + c,
        is_live |-> l ] :
      fp \in EngFailedPrices, s \in EngSizes, w \in EngWhaleShares,
      b \in BOOLEAN, a \in 1..MaxSeedAttempt, mp \in EngMaxPrices,
      c \in EngCumulative, l \in BOOLEAN }

InitEngine ==
    /\ MIN_SHARE_COUNT \in MinShareCounts
    /\ resubmit_ch \in {<<r>> : r \in EngineRequests}
    /\ pc = "recv"
    /\ req = NoRequest
    /\ seed = NoRequest
    /\ inflight = <<>>
    /\ orders = <<>>
    /\ outcome = "none"
    /\ last_increment = 0
    /\ answers = NoAnswers
    /\ last_seed = NoSeed
    /\ DispatchIdle

NextEngine ==
    \/ WorkerRecv
    \/ \E resp \in Responses : WorkerResult(resp)
    \/ ChainStep
    \/ \E resp \in Responses : ChainResult(resp)

EngineSpec == InitEngine /\ [][NextEngine]_vars

\* the same with the scheduling the program relies on: the worker task is
\* polled whenever it can run, and every blocking submission returns
EngineLiveSpec == EngineSpec /\ WF_vars(NextEngine)

\* the order worker alone, on its first order
\* the resubmit worker in front of a backlog: requests sent to the unbounded
\* channel while it was busy, told apart by their token
MaxPending == 2
PendingTokens == <<"tok1", "tok2", "tok3">>
\* (whale_shares, failed_price, max_price): below the tier at 0.52, in the
\* tier at 0.52 with and without room for the chase, in the tier at the cap
PendingPrices ==
    { <<39999, 520, 520>>, <<40000, 520, 530>>, <<40000, 520, 520>>,
      <<40000, 990, 990>> }

PendingRequests(i) ==
    { [ token_id |-> PendingTokens[i], whale_price |-> 500,
        failed_price |-> p[2], size |-> 2000, whale_shares |-> p[1],
        side_is_buy |-> TRUE, attempt |-> 1, max_price |-> p[3],
        cumulative_filled |-> 0, original_size |-> 2000, is_live |-> FALSE ] :
      p \in PendingPrices }

PendingChannels ==
    UNION { { ch \in [1..n -> UNION {PendingRequests(i) : i \in 1..n}] :
                \A i \in 1..n : ch[i] \in PendingRequests(i) } :
            n \in 1..MaxPending }

InitPending ==
    /\ MIN_SHARE_COUNT \in MinShareCounts
    /\ resubmit_ch \in PendingChannels
    /\ pc = "recv"
    /\ req = NoRequest
    /\ seed = NoRequest
    /\ inflight = <<>>
    /\ orders = <<>>
    /\ outcome = "none"
    /\ last_increment = 0
    /\ answers = NoAnswers
    /\ last_seed = NoSeed
    /\ DispatchIdle

\* the worker task is polled whenever it can run and every blocking
\* submission returns
PendingSpec == InitPending /\ [][NextEngine]_vars /\ WF_vars(NextEngine)

SeedSpec == Init /\ [][SeedOrder]_vars

(***************************************************************************)
(* Properties                                                              *)
(***************************************************************************)
OrderIndexes == 1..Len(orders)
InMicroRange(p) == 10000 <= p /\ p <= 990000      \* [0.01, 0.99] on the wire

\* C1: for a request seeded at attempt = 1 the engine (resubmit_worker and
\* process_resubmit_chain together) submits at most
\* max_resubmit_attempts(whale_shares) orders, FAK and GTD counted alike:
\* 4 below 4000 whale shares, 5 from 4000 on.
C1_MaxSubmissions ==
    seed.attempt = 1 =>
        Len(orders) <= (IF seed.whale_shares >= 40000 THEN 5 ELSE 4)

C1_Witness ==
    /\ seed.attempt = 1 /\ seed.whale_shares >= 40000
    /\ Len(orders) = 5
    /\ orders[5].args.order_type = "GTD"
    /\ outcome = "GTDPosted"

\* C2: on a non-last attempt of a buy request a new_price above max_price
\* aborts the request: no order is submitted for that attempt (the orders
\* submitted are those of the earlier attempts only), the engine is back at
\* its receive and nothing is in flight; a new_price equal to max_price does
\* not abort, and no non-last buy order is ever submitted above max_price.
C2_CeilingAbort ==
    /\ outcome = "Aborted" =>
          /\ req.side_is_buy
          /\ req.attempt < get_max_resubmit_attempts(req.whale_shares)
          /\ Min(req.failed_price + last_increment, 990) > req.max_price
          /\ pc = "recv" /\ inflight = <<>>
          /\ Len(orders) = req.attempt - seed.attempt
    /\ \A i \in OrderIndexes :
          (seed.side_is_buy /\ ~orders[i].is_last_attempt)
              => orders[i].new_price <= seed.max_price

C2_Witness ==
    /\ outcome = "Aborted" /\ orders = <<>>
    /\ seed.whale_shares = 40000 /\ seed.attempt = 1
    /\ seed.failed_price = 530 /\ seed.max_price = 530

\* C3 (as claimed): every order the engine submits is priced in [0.01, 0.99],
\* whatever the request.
C3_PriceInRangeAnyRequest ==
    \A i \in OrderIndexes : InMicroRange(orders[i].args.price)

\* C3 (amended): for a request whose failed_price lies in [0.01, 0.99], every
\* order the engine submits, on every attempt, is priced in [0.01, 0.99].
C3_PriceInRange ==
    (10 <= seed.failed_price /\ seed.failed_price <= 990) =>
        \A i \in OrderIndexes : InMicroRange(orders[i].args.price)

C3_Witness ==
    /\ seed.failed_price = 985 /\ seed.side_is_buy /\ seed.attempt = 1
    /\ seed.whale_shares = 40000
    /\ Len(orders) >= 2
    /\ orders[1].args.price = 990000

\* C4: an order is a GTD exactly when it is submitted on the last attempt
\* (attempt >= max_attempts), and then it expires at now +
\* gtd_expiry_secs(is_live); every earlier order is a FAK without expiration.
\* A GTD is the last order of its request, so there is at most one.
C4_GtdOnlyLast ==
    \A i \in OrderIndexes :
        LET o == orders[i]
            last == o.attempt >= (IF seed.whale_shares >= 40000 THEN 5 ELSE 4)
        IN /\ o.args.order_type = (IF last THEN "GTD" ELSE "FAK")
           /\ last => /\ i = Len(orders)
                      /\ \E now \in Times :
                            o.args.expiration =
                                {now + (IF seed.is_live THEN GTD_EXPIRY_LIVE
                                        ELSE GTD_EXPIRY_NON_LIVE)}
           /\ ~last => o.args.expiration = {}

C4_Witness ==
    /\ Len(orders) = 4 /\ seed.attempt = 1 /\ seed.whale_shares = 39999
    /\ \A i \in 1..3 : orders[i].args.order_type = "FAK"
    /\ orders[4].args.order_type = "GTD"
    /\ orders[4].args.expiration # {}

\* C5: the engine raises the price by one increment exactly on attempt 1 of
\* a whale of 4000 shares or more; should_increment_price(w, n) is true iff
\* w >= 4000 and n = 1, the boundaries 3999.9 and 4000 included.
C5_ChaseRule ==
    /\ pc \in {"worker_await", "chain_await"} =>
          last_increment =
              (IF req.whale_shares >= 40000 /\ req.attempt = 1 THEN 10 ELSE 0)
    /\ \A w \in {1000, 39999, 40000, 80000, 100000}, n \in 1..6 :
          should_increment_price(w, n) <=> (w >= 40000 /\ n = 1)
    /\ test_tier_boundary_8000 /\ test_tier_small_never_chases

C5_Witness ==
    /\ pc = "chain_await" /\ req.whale_shares = 40000 /\ req.attempt = 2
    /\ last_increment = 0
    /\ orders[1].new_price = seed.failed_price + 10

IsRound2Of(y, x) == y % 10 = 0 /\ 2 * (y - x) <= 10 /\ 2 * (x - y) < 10

\* C7: after a FAK failure of an initial order of N shares at limit L the
\* request emitted has size = original_size = round2(N), attempt = 1,
\* failed_price = L and cumulative_filled = 0.
C7_FakFailureSeed ==
    last_seed.path = "fak_failure" =>
        \A r \in last_seed.emitted :
            /\ IsRound2Of(r.size, last_seed.my_shares)
            /\ r.original_size = r.size
            /\ r.attempt = 1
            /\ r.failed_price = last_seed.limit_price
            /\ r.cumulative_filled = 0

C7_Witness ==
    /\ last_seed.path = "fak_failure" /\ last_seed.my_shares = 40006
    /\ \E r \in last_seed.emitted : r.size = 40010 /\ r.failed_price = 510
    /\ resubmit_ch # <<>>

\* C8: an initial order with 0 < filled < requested that passes the
\* minimum-threshold gate emits a request with size = round2(requested -
\* filled), failed_price = L, attempt = 1 and cumulative_filled = filled.
C8_UnderfillSeed ==
    last_seed.path = "underfill" =>
        \A r \in last_seed.emitted :
            /\ 0 < last_seed.filled /\ last_seed.filled < last_seed.my_shares
            /\ IsRound2Of(r.size, last_seed.my_shares - last_seed.filled)
            /\ r.failed_price = last_seed.limit_price
            /\ r.attempt = 1
            /\ r.cumulative_filled = last_seed.filled

C8_Witness ==
    /\ last_seed.path = "underfill" /\ last_seed.my_shares = 40006
    /\ last_seed.filled = 600
    /\ \E r \in last_seed.emitted : r.size = 39410 /\ r.cumulative_filled = 600
    /\ resubmit_ch # <<>>

\* C9: the underfill trigger emits a request only when 0 < filled <
\* requested: a full fill or an overfill emits none, and a zero fill is
\* never an underfill (what it emits is the FAK-failure seed).
C9_UnderfillOnlyPartial ==
    last_seed.path \in {"fak_failure", "underfill"} =>
        LET s == last_seed
            u == should_resubmit_underfill(s.filled, s.my_shares, s.limit_price,
                                           s.whale_shares, s.whale_price, "tok")
        IN /\ u # {} => (0 < s.filled /\ s.filled < s.my_shares)
           /\ s.filled >= s.my_shares => (u = {} /\ s.emitted = {})
           /\ s.filled = 0 =>
                 /\ u = {}
                 /\ s.path = "fak_failure"
                 /\ \A r \in s.emitted : r.cumulative_filled = 0
           /\ (s.path = "underfill" /\ s.emitted # {}) =>
                 (0 < s.filled /\ s.filled < s.my_shares)

C9_Witness ==
    /\ last_seed.path = "underfill" /\ last_seed.filled = 41000
    /\ last_seed.my_shares = 40006 /\ last_seed.emitted = {}
    /\ resubmit_ch = <<>>

\* C10: an underfilled initial order whose remainder is below
\* max(MIN_SHARE_COUNT, MIN_CASH_VALUE / L) emits no request and counts as a
\* success; a remainder at or above that threshold emits one.
C10_MinimumThresholdGate ==
    (/\ last_seed.path = "underfill"
     /\ 0 < last_seed.filled /\ last_seed.filled < last_seed.my_shares) =>
        LET remaining == last_seed.my_shares - last_seed.filled
            below == \/ remaining < MIN_SHARE_COUNT
                     \/ remaining * last_seed.limit_price < 1010000
        IN /\ below => (last_seed.emitted = {} /\ last_seed.status = "SUCCESS"
                            /\ resubmit_ch = <<>>)
           /\ ~below => (last_seed.emitted # {} /\ Len(resubmit_ch) = 1)

C10_Witness ==
    /\ last_seed.path = "underfill" /\ last_seed.my_shares = 2504
    /\ last_seed.filled = 600 /\ last_seed.limit_price = 990
    /\ MIN_SHARE_COUNT = 2000
    /\ last_seed.emitted = {} /\ last_seed.status = "SUCCESS"

\* C11: for every whale event the initial limit price is min(whale_price +
\* tier_buffer + class_buffer, 0.99) and the max_price of the request seeded
\* is min(limit_price + resubmit_max_buffer(whale_shares), 0.99); hence
\* limit_price <= max_price <= 0.99 for every seeded request, also when
\* whale_price plus the buffers exceeds 0.99.
C11_SeedCaps ==
    /\ last_seed.side = "BUY" =>
          /\ last_seed.limit_price =
                Min(last_seed.whale_price
                      + get_tier_params(last_seed.whale_shares, TRUE, "tok").buffer
                      + last_seed.class_buffer, 990)
          /\ last_seed.limit_price <= 990
          /\ \A r \in last_seed.emitted :
                /\ r.failed_price = last_seed.limit_price
                /\ r.max_price =
                      Min(last_seed.limit_price
                            + get_resubmit_max_buffer(last_seed.whale_shares), 990)
                /\ last_seed.limit_price <= r.max_price
                /\ r.max_price <= 990
    /\ test_price_ceiling_hard_cap_099 /\ test_atp_near_price_ceiling

C11_Witness ==
    /\ last_seed.whale_shares = 40000 /\ last_seed.whale_price = 980
    /\ last_seed.class_buffer = 10 /\ last_seed.limit_price = 990
    /\ \E r \in last_seed.emitted : r.max_price = 990 /\ r.failed_price = 990

C13_FillAccounting ==
    (/\ 0 <= seed.cumulative_filled
     /\ seed.cumulative_filled <= seed.original_size
     /\ seed.size <= seed.original_size - seed.cumulative_filled) =>
        /\ 0 <= req.cumulative_filled
        /\ req.cumulative_filled <= req.original_size
        /\ req.size <= req.original_size - req.cumulative_filled
        /\ req.original_size = seed.original_size
        /\ req.cumulative_filled >= seed.cumulative_filled

C13_Witness ==
    /\ seed.size = 40000 /\ seed.cumulative_filled = 600
    /\ seed.original_size = 40600
    /\ pc = "chain_top"
    /\ req.cumulative_filled = 1800 /\ req.size = 38800

\* C14: for a request seeded at attempt = 1 every request state the engine
\* handles has 1 <= attempt <= max_resubmit_attempts(whale_shares); the k-th
\* order is submitted at attempt k, and the counter is one past the number of
\* orders submitted whenever the engine is about to start the next attempt.
C14_AttemptRange ==
    seed.attempt = 1 =>
        /\ 1 <= req.attempt
        /\ req.attempt <= (IF req.whale_shares >= 40000 THEN 5 ELSE 4)
        /\ \A i \in OrderIndexes : orders[i].attempt = i
        /\ pc = "chain_top" => req.attempt = Len(orders) + 1
        /\ pc \in {"worker_await", "chain_await"} => req.attempt = Len(orders)
        /\ outcome \notin {"none", "Aborted"} => req.attempt = Len(orders)
        /\ outcome # "Exhausted"

C14_Witness ==
    /\ seed.attempt = 1 /\ seed.whale_shares = 40000
    /\ pc = "chain_top" /\ req.attempt = 5 /\ Len(orders) = 4

\* C15: the resubmit core is buy-only: every request the engine takes from
\* the channel and every request state it moves through has side_is_buy =
\* TRUE, a sell-side whale event never puts a request on the channel, and
\* every order the engine submits has side BUY.
C15_BuyOnly ==
    /\ \A i \in 1..Len(resubmit_ch) : resubmit_ch[i].side_is_buy
    /\ req.side_is_buy /\ seed.side_is_buy
    /\ last_seed.side = "SELL" => last_seed.emitted = {}
    /\ \A r \in last_seed.emitted : r.side_is_buy
    /\ \A i \in OrderIndexes : orders[i].args.side = "BUY"
    /\ inflight # <<>> => inflight[1].args.side = "BUY"

C15_Witness ==
    /\ last_seed.side = "SELL" /\ last_seed.emitted = {}
    /\ Len(orders) >= 2 /\ orders[2].args.side = "BUY"
    /\ seed.side_is_buy /\ seed.attempt = 1

\* C16: when the risk guard denies the initial order the order worker
\* replies with a refusal status, submits no order and emits no
\* ResubmitRequest for the event.
C16_RiskDenied ==
    (last_seed.side = "BUY" /\ last_seed.guard = "deny") =>
        /\ last_seed.status = "RISK_DENIED"
        /\ last_seed.initial_orders = 0
        /\ last_seed.emitted = {}
        /\ resubmit_ch = <<>>

C16_Witness ==
    /\ last_seed.side = "BUY" /\ last_seed.guard = "deny"
    /\ last_seed.status = "RISK_DENIED" /\ last_seed.whale_shares = 40000
    /\ resubmit_ch = <<>>

\* the statuses process_order replies with
WorkerStatuses ==
    {"RESUBMIT_QUEUED", "SUCCESS", "RISK_DENIED", "SELL_NOT_RESUBMITTED"}

C18_QueueFull ==
    /\ QueueLen(order_ch) <= 1024
    /\ \A e \in Events :
          /\ ledger[e].full_at_submit =>
                (calls[e].pc = "done" /\ calls[e].status = "QUEUE_ERR")
          /\ calls[e].status = "QUEUE_ERR" =>
                /\ ledger[e].enqueued = 0 /\ ledger[e].consumed = 0
                /\ ledger[e].awaited = ""
                /\ respond_to[e].state = "none"
                /\ \A i \in 1..Len(order_ch.items) : order_ch.items[i] # e

C18_Witness ==
    /\ calls[1].pc = "await" /\ QueueLen(order_ch) = 1024
    /\ order_worker_st.pc = "recv"
    /\ ledger[2].full_at_submit /\ calls[2].status = "QUEUE_ERR"

\* C19: a call whose work item was enqueued returns the worker's status
\* unchanged when the reply arrived before ORDER_REPLY_TIMEOUT, WORKER_TIMEOUT
\* when the timeout elapsed first, WORKER_DROPPED when the reply channel was
\* dropped without a reply.
C19_ReplyOutcomes ==
    \A e \in Events :
        (calls[e].pc = "done" /\ ledger[e].enqueued = 1) =>
            /\ ledger[e].awaited \in {"reply", "elapsed", "dropped"}
            /\ ledger[e].awaited = "reply" =>
                  /\ calls[e].status = respond_to[e].msg
                  /\ calls[e].status \in WorkerStatuses
                  /\ ledger[e].sends = 1
            /\ ledger[e].awaited = "elapsed" =>
                  calls[e].status = "WORKER_TIMEOUT"
            /\ ledger[e].awaited = "dropped" =>
                  /\ calls[e].status = "WORKER_DROPPED"
                  /\ ledger[e].sends = 0
                  /\ respond_to[e].state = "dropped"

C19_Witness ==
    /\ ledger[1].awaited = "reply" /\ calls[1].status = "RISK_DENIED"
    /\ ledger[2].awaited = "dropped" /\ calls[2].status = "WORKER_DROPPED"

\* C20: no ResubmitRequest is emitted for an event after its call of
\* OrderEngine::submit has returned WORKER_TIMEOUT or WORKER_DROPPED.
C20_NoResubmitAfterTimeout ==
    \A e \in Events : ~ledger[e].late_emitted


\* C21: events keep their WebSocket order through the queue: when event a is
\* read before event b and both are enqueued, a is placed on the bounded
\* queue before b, and consumed by the order worker before b.
C21_PerEventFifo ==
    \A a \in Events, b \in Events :
        (a < b /\ ledger[a].enqueued = 1 /\ ledger[b].enqueued = 1) =>
            /\ ledger[a].enq_rank < ledger[b].enq_rank
            /\ ledger[b].cons_rank > 0 =>
                  (ledger[a].cons_rank > 0
                     /\ ledger[a].cons_rank < ledger[b].cons_rank)


\* C22: the engine does not serialise requests: a request waiting in the
\* resubmit channel can be taken up while the chain of another request is
\* still running, so that the submissions of two requests interleave.
C22_RequestsInterleave ==
    (pc # "recv" /\ resubmit_ch # <<>>) => ENABLED WorkerRecv

\* C22 (amended): requests are handled one at a time: the worker takes a
\* request from the channel only when no submission is in flight and no
\* chain is running, and every order submitted until it takes the next one
\* is an order of the request in hand.
C22_RequestsSerialised ==
    [][ /\ (resubmit_ch # <<>> /\ resubmit_ch' = Tail(resubmit_ch)) =>
              (pc = "recv" /\ inflight = <<>> /\ seed' = Head(resubmit_ch))
        /\ seed' # seed =>
              (pc = "recv" /\ resubmit_ch # <<>> /\ seed' = Head(resubmit_ch))
        /\ Len(orders') > Len(orders) =>
              /\ seed' = seed \/ Len(orders') = 1
              /\ orders'[Len(orders')].args.size = round_micro(req'.size)
              /\ orders'[Len(orders')].attempt = req'.attempt ]_vars

C22_Witness ==
    /\ pc = "chain_await" /\ Len(orders) >= 2
    /\ resubmit_ch # <<>>
    /\ Head(resubmit_ch).whale_shares # seed.whale_shares


\* the engine has just matched the answer to the first order of the request
\* in hand, the one resubmit_worker itself submits
AfterFirstAnswer ==
    /\ Len(orders) = 1 /\ answers.last # <<>> /\ inflight = <<>>
    /\ \/ pc = "chain_top"
       \/ outcome \in {"GTDPosted", "Filled", "Rejected", "SubmitError",
                       "TaskError"}

\* C23: resubmit_worker and process_resubmit_chain are one state machine:
\* what the worker does with a request it receives (abort or submit, the
\* order submitted, and after the answer the successor request or the
\* terminal outcome) is what process_resubmit_chain does with the same
\* request and the same answer; from there on both run the chain, so the
\* submissions and the terminal outcome agree.
C23_SameStateMachine ==
    /\ (seed # NoRequest /\ orders = <<>> /\ pc = "recv") =>
          (outcome = "Aborted" /\ chain_abort(seed))
    /\ Len(orders) >= 1 =>
          /\ seed.attempt <= get_max_resubmit_attempts(seed.whale_shares)
          /\ ~chain_abort(seed)
          /\ \E now \in Times :
                orders[1] = Flight(seed, chain_new_price(seed),
                                   chain_is_last_attempt(seed), now)
    /\ AfterFirstAnswer =>
          LET m == chain_match(seed, orders[1], answers.last[1])
          IN /\ req = m.req
             /\ pc = m.pc
             /\ outcome = (IF m.outcome = "" THEN "none" ELSE m.outcome)


\* the engine has just matched the answer to its latest order
AfterAnswer ==
    /\ Len(orders) >= 1 /\ answers.last # <<>> /\ inflight = <<>>
    /\ \/ pc = "chain_top"
       \/ outcome \in {"GTDPosted", "Filled", "Rejected", "SubmitError",
                       "TaskError"}

LastOrder == orders[Len(orders)]
LastAnswer == answers.last[1]

\* C26: after a FAK of attempt k was rejected (HTTP non-success), the engine
\* goes on to attempt k + 1 exactly when k < max_attempts and the body
\* contains "FAK"; otherwise the chain ends Rejected; in resubmit_worker as
\* in process_resubmit_chain.
C26_RetryIffFakBody ==
    (AfterAnswer /\ LastOrder.args.order_type = "FAK"
                 /\ LastAnswer.kind = "http_fail") =>
        LET k == LastOrder.attempt
            goes_on == pc = "chain_top" /\ req.attempt = k + 1
        IN /\ goes_on <=>
                 (k < get_max_resubmit_attempts(req.whale_shares)
                    /\ LastAnswer.body_fak)
           /\ ~goes_on => (pc = "recv" /\ outcome = "Rejected")


\* the request in hand is one the order worker seeds: a buy at attempt 1
\* whose ceiling is its failed price plus the tier's resubmit buffer, capped
SeededAtOne ==
    /\ seed.side_is_buy /\ seed.attempt = 1
    /\ seed.max_price =
           Min(seed.failed_price + get_resubmit_max_buffer(seed.whale_shares),
               PRICE_CAP)

\* C24: for a request seeded at attempt 1 with failed price L, as long as
\* every FAK submitted for it is rejected with a body signalling FAK, the
\* orders are attempt 1, 2, ... in turn, the first max_attempts - 1 of them
\* FAK and the last GTD, all of the seeded size and all at min(L + inc, 0.99)
\* with inc = 0.01 from 4000 whale shares on and 0 below; the chain does not
\* end before the GTD, so it ends with exactly max_attempts submissions.
C24_FullSequence ==
    (SeededAtOne /\ answers.fak_rejected) =>
        LET max_attempts == IF seed.whale_shares >= 40000 THEN 5 ELSE 4
            inc == IF seed.whale_shares >= 40000 THEN 10 ELSE 0
            price == Min(seed.failed_price + inc, 990)
        IN /\ Len(orders) <= max_attempts
           /\ \A i \in OrderIndexes :
                 /\ orders[i].attempt = i
                 /\ orders[i].args.order_type =
                        (IF i < max_attempts THEN "FAK" ELSE "GTD")
                 /\ orders[i].args.size = seed.size * 1000
                 /\ orders[i].args.price = price * 1000
           /\ pc = "recv" => Len(orders) = max_attempts
           /\ outcome \in {"none", "GTDPosted", "Rejected", "SubmitError",
                           "TaskError"}

C24_Witness ==
    /\ SeededAtOne /\ answers.fak_rejected
    /\ seed.whale_shares = 40000 /\ seed.failed_price = 520
    /\ seed.max_price = 530
    /\ pc = "recv" /\ outcome = "GTDPosted"
    /\ Len(orders) = 5
    /\ \A i \in OrderIndexes : orders[i].args.price = 530000


\* C25: only events with shares > 0 and 0 < price < 1 are processed into
\* orders: an event with shares <= 0 or a price outside (0, 1) gets no order
\* placed and no ResubmitRequest emitted.
C25_OnlyValidEvents ==
    \A e \in Events :
        (ledger[e].placed > 0 \/ ledger[e].emitted > 0) =>
            /\ events[e].shares > 0
            /\ 0 < events[e].price_per_share
            /\ events[e].price_per_share < 1000


\* C27: a non-last (FAK) attempt ends the chain as Filled exactly when the
\* submission succeeded and size - filled_this_attempt <= 1 share; a
\* successful FAK that leaves more than 1 share unfilled, a zero or
\* unparsable taking_amount included, never ends the chain as Filled.
C27_FilledOnlyWhenFilled ==
    (AfterAnswer /\ LastOrder.args.order_type = "FAK") =>
        LET size == LastOrder.args.size \div 1000
            filled == filled_shares(LastAnswer, "FAK")
        IN (pc = "recv" /\ outcome = "Filled") <=>
              (LastAnswer.kind = "http_ok" /\ size - filled <= 1000)


\* C28: every order the engine submits, re-entries after a partial fill
\* included, has size >= max(MIN_SHARE_COUNT, MIN_CASH_VALUE / price), for
\* every buy request that itself met that minimum when it was seeded.
C28_OrdersAboveMinimum ==
    (seed.side_is_buy /\ ~below_min_threshold(seed.size, seed.failed_price)) =>
        \A i \in OrderIndexes :
            ~below_min_threshold(orders[i].args.size \div 1000,
                                 orders[i].args.price \div 1000)


\* the step in which the engine matches the answer to the order in flight
ResultStep ==
    /\ pc \in {"worker_await", "chain_await"}
    /\ inflight # <<>> /\ inflight' = <<>> /\ answers'.last # <<>>

\* C29: when a FAK of attempt k succeeds with 0 < filled_this_attempt and
\* size - filled_this_attempt > 1 share, the engine goes on with the request
\* changed in exactly this: cumulative_filled raised by filled_this_attempt,
\* size = the remainder, failed_price = new_price, attempt = k + 1.
C29_PartialReentry ==
    [][ ResultStep =>
          LET f == inflight[1]
              resp == answers'.last[1]
          IN \A t \in resp.taking :
               (/\ f.args.order_type = "FAK" /\ resp.kind = "http_ok"
                /\ t > 0 /\ req.size - t > 1000) =>
                  /\ pc' = "chain_top" /\ outcome' = outcome
                  /\ req' = [req EXCEPT
                               !.cumulative_filled = req.cumulative_filled + t,
                               !.size = req.size - t,
                               !.failed_price = f.new_price,
                               !.attempt = f.attempt + 1]
                  /\ f.attempt = req.attempt ]_vars

C29_Witness ==
    /\ pc = "chain_top" /\ Len(orders) = 2 /\ inflight = <<>>
    /\ answers.last = <<[kind |-> "http_ok", body_fak |-> FALSE,
                         taking |-> {600}]>>
    /\ seed.attempt = 1 /\ seed.size = 40000 /\ seed.cumulative_filled = 600
    /\ seed.whale_shares = 40000 /\ seed.failed_price = 520
    /\ req.attempt = 3 /\ req.size = 38800 /\ req.cumulative_filled = 1800
    /\ req.failed_price = 530


\* C30: when a FAK of attempt k is rejected (HTTP non-success) and the
\* engine retries, the successor request has the same size, failed_price =
\* new_price and attempt = k + 1; cumulative_filled is raised by
\* filled_this_attempt, which is 0 for every non-success answer whatever its
\* body carries, so cumulative_filled is unchanged.
C30_FailedRetry ==
    [][ (/\ ResultStep
         /\ inflight[1].args.order_type = "FAK"
         /\ answers'.last[1].kind = "http_fail"
         /\ pc' = "chain_top") =>
          /\ filled_shares(answers'.last[1], "FAK") = 0
          /\ inflight[1].attempt = req.attempt
          /\ outcome' = outcome
          /\ req' = [req EXCEPT !.failed_price = inflight[1].new_price,
                                !.attempt = inflight[1].attempt + 1] ]_vars

C30_Witness ==
    /\ pc = "chain_top" /\ Len(orders) = 2 /\ inflight = <<>>
    /\ answers = [last |-> <<[kind |-> "http_fail", body_fak |-> TRUE,
                              taking |-> {600}]>>,
                  fak_rejected |-> TRUE]
    /\ seed.attempt = 1 /\ seed.whale_shares = 40000
    /\ seed.failed_price = 520 /\ seed.cumulative_filled = 600
    /\ req.attempt = 3 /\ req.size = seed.size /\ req.failed_price = 530
    /\ req.cumulative_filled = 600


\* C31: the last attempt is terminal whatever the exchange answers: a GTD
\* that succeeds ends the request as GTDPosted, whatever taking_amount its
\* body carries (nothing is added to cumulative_filled), a GTD that is
\* rejected ends it as Rejected, whatever its body; the GTD is the last
\* order of its request.
C31_LastAttemptTerminal ==
    [][ /\ (ResultStep /\ inflight[1].args.order_type = "GTD") =>
              /\ inflight[1].is_last_attempt
              /\ pc' = "recv" /\ req' = req /\ orders' = orders
              /\ answers'.last[1].kind = "http_ok" => outcome' = "GTDPosted"
              /\ answers'.last[1].kind = "http_fail" => outcome' = "Rejected"
        /\ Len(orders') > Len(orders) =>
              \A i \in OrderIndexes : orders[i].args.order_type = "FAK" ]_vars

C31_Witness ==
    /\ Len(orders) = 4 /\ LastOrder.args.order_type = "GTD"
    /\ inflight = <<>> /\ pc = "recv" /\ outcome = "GTDPosted"
    /\ LastAnswer = [kind |-> "http_ok", body_fak |-> FALSE, taking |-> {600}]
    /\ answers.fak_rejected
    /\ req.cumulative_filled = seed.cumulative_filled

\* the request in hand has ended, and not by a ceiling abort
EndedUnaborted ==
    /\ pc = "recv" /\ Len(orders) >= 1 /\ inflight = <<>>
    /\ outcome \notin {"none", "Aborted"}

\* what the latest order left unfilled
Remainder == req.size - filled_shares(LastAnswer, LastOrder.args.order_type)

\* C32: a request that is not filled by its FAK attempts and is not
\* ceiling-aborted gets a GTD: it never ends with more than 1 share
\* unfilled and no GTD submitted.
C32_GtdOrFilled ==
    (EndedUnaborted /\ Remainder > 1000) => LastOrder.args.order_type = "GTD"

\* C32 (amended): a request ends on a FAK, without a GTD, only when that
\* FAK succeeded and was not re-entered (it left at most 1 share, or it
\* took nothing), when it was rejected with a body that has no "FAK", or
\* when the submission itself failed; a FAK rejected with a FAK body or
\* partially filled never ends the request, and the GTD that ends it is for
\* the size then remaining.
C32_EndsOnFak ==
    /\ (EndedUnaborted /\ LastOrder.args.order_type = "FAK") =>
          \/ LastAnswer.kind \in {"submit_err", "task_err"}
          \/ LastAnswer.kind = "http_fail" /\ ~LastAnswer.body_fak
          \/ /\ LastAnswer.kind = "http_ok"
             /\ (Remainder <= 1000 \/ filled_shares(LastAnswer, "FAK") = 0)
    /\ (EndedUnaborted /\ LastOrder.args.order_type = "GTD") =>
          LastOrder.args.size = req.size * 1000

C32_Witness ==
    /\ EndedUnaborted /\ LastOrder.args.order_type = "GTD"
    /\ Len(orders) = 5 /\ seed.attempt = 1
    /\ req.size < seed.size /\ ~answers.fak_rejected
    /\ LastOrder.args.size = req.size * 1000


C35_OneInFlight ==
    [][ /\ Len(inflight') <= 1
        /\ orders' # orders => inflight = <<>>
        /\ (inflight' # inflight /\ inflight' # <<>>) =>
              /\ inflight = <<>>
              /\ orders # <<>> => answers.last # <<>> ]_vars

\* the second attempt is in flight, the first one answered
C35_Witness ==
    /\ Len(orders) = 2
    /\ inflight = <<orders[2]>>
    /\ answers.last # <<>>
    /\ pc = "chain_await"


\* a request as the order worker seeds it: attempt 1, the limit price L on
\* the 0.01 grid and at most 0.99, max_price = min(L + tier buffer, 0.99)
SeededByOrderWorker ==
    /\ seed.attempt = 1
    /\ seed.failed_price % 10 = 0
    /\ seed.failed_price <= PRICE_CAP
    /\ seed.max_price =
           Min(seed.failed_price + get_resubmit_max_buffer(seed.whale_shares),
               PRICE_CAP)

\* C36: for a request seeded by the order worker the price of every
\* attempt, the GTD included, is at most max_price, and the request is never
\* aborted for its ceiling.
C36_SeededWithinCeiling ==
    SeededByOrderWorker =>
        /\ outcome # "Aborted"
        /\ \A i \in OrderIndexes :
              /\ orders[i].new_price <= seed.max_price
              /\ orders[i].args.price <= seed.max_price * 1000

\* a buy of the chasing tier seeded at 0.99, the cap, whose orders up to the
\* GTD went out at 0.99
C36_Witness ==
    /\ SeededByOrderWorker /\ seed.side_is_buy
    /\ seed.whale_shares >= 40000 /\ seed.failed_price = PRICE_CAP
    /\ LastOrder.args.order_type = "GTD"
    /\ LastOrder.args.price = seed.max_price * 1000
    /\ outcome = "GTDPosted"
    /\ answers.last # <<>> /\ ~answers.fak_rejected


\* C37: every transition of a request, the partial re-entry and the failed
\* retry in the worker and in the chain, leaves token_id, whale_price,
\* whale_shares, side_is_buy, max_price, original_size and is_live as they
\* were; only failed_price, size, attempt and cumulative_filled may change.
C37_FrameOfRequest ==
    [][ pc # "recv" =>
          req' = [req EXCEPT !.failed_price = req'.failed_price,
                             !.size = req'.size,
                             !.attempt = req'.attempt,
                             !.cumulative_filled = req'.cumulative_filled] ]_vars

\* a request that went through a partial re-entry and a failed retry: the
\* four fields have changed, the seven others are the seeded ones
C37_Witness ==
    /\ Len(orders) >= 3
    /\ req.attempt >= seed.attempt + 2
    /\ req.size < seed.size
    /\ req.cumulative_filled > seed.cumulative_filled
    /\ req.failed_price # seed.failed_price
    /\ answers.last # <<>> /\ LastAnswer.kind = "http_fail"
    /\ req.original_size = seed.original_size
    /\ req.max_price = seed.max_price


\* C38: when an order cannot be signed or posted, or the blocking task
\* fails, the request ends at once: the worker is back at its receive, no
\* further order is submitted for the request (no retry, no GTD) even when
\* attempts remain, and the request, with the cumulative_filled that is
\* reported, is unchanged.
C38_ErrorEndsRequest ==
    [][ /\ (ResultStep /\ answers'.last[1].kind \in {"submit_err", "task_err"}) =>
              /\ pc' = "recv"
              /\ inflight' = <<>>
              /\ orders' = orders
              /\ req' = req
              /\ outcome' = (IF answers'.last[1].kind = "submit_err"
                             THEN "SubmitError" ELSE "TaskError")
        /\ (pc = "recv" /\ outcome \in {"SubmitError", "TaskError"}) =>
              (orders' # orders => resubmit_ch' = Tail(resubmit_ch)) ]_vars

\* a FAK of the chain, after a partial fill and with attempts left, ended by
\* a failed blocking task
C38_Witness ==
    /\ pc = "recv" /\ outcome = "TaskError"
    /\ answers.last # <<>> /\ LastAnswer.kind = "task_err"
    /\ Len(orders) >= 2
    /\ LastOrder.args.order_type = "FAK"
    /\ req.attempt < get_max_resubmit_attempts(req.whale_shares)
    /\ req.cumulative_filled > seed.cumulative_filled
    /\ req.size > ONE_SHARE


\* C39: the resubmit worker never stops while its channel is open: whatever
\* the outcome of a request it comes back to its receive, it takes the
\* requests from the head of the channel, in the order they were sent, and
\* every request on the channel is eventually taken and handled to an end.
C39_WorkerServesAll ==
    /\ [][ resubmit_ch' # resubmit_ch =>
              /\ worker_at_recv
              /\ seed' = Head(resubmit_ch)
              /\ resubmit_ch' = Tail(resubmit_ch) ]_vars
    /\ (pc # "recv") ~> (pc = "recv")
    /\ \A i \in 1..MaxPending :
          (\E j \in 1..Len(resubmit_ch) :
                resubmit_ch[j].token_id = PendingTokens[i])
             ~> (seed.token_id = PendingTokens[i] /\ pc = "recv"
                    /\ outcome # "none")

\* the second request of the backlog handled to the end after the first
C39_Witness ==
    /\ seed.token_id = PendingTokens[2]
    /\ pc = "recv" /\ resubmit_ch = <<>>
    /\ outcome = "GTDPosted"
    /\ Len(orders) >= 4

====
